---- MODULE Spec2Model ----
(***************************************************************************)
(* Kafka topic and Kafka ACL resource handlers of the Confluent provider.  *)
(*                                                                         *)
(* The handlers are stateless: the hosting runtime hands every invocation  *)
(* a ResourceData `d` (resource ID, "new" mark, prior state and the        *)
(* attribute values d.Get returns) and the handler talks to the Kafka REST *)
(* API.  A state of the model is one finished handler invocation: the      *)
(* ResourceData it was given (dIn), the ResourceData it left (d), the      *)
(* ordered log of what it did (steps), and the error it returned (err).    *)
(* Remote responses are inputs of the handlers, drawn from small sets.     *)
(* idOf is the cluster ID and the topic name or ACL that an ID handed to   *)
(* an import was built of, where the model built it.                       *)
(* Strings that the code builds or parses are sequences of characters.     *)
(***************************************************************************)
EXTENDS Integers, Sequences, FiniteSets, TLC

VARIABLES op, dIn, d, steps, err, locals, idOf

vars == <<op, dIn, d, steps, err, locals, idOf>>

\* ---------------------------------------------------------------- bounds
MaxPartitions == 2
MaxMatched == 2
MaxPolls == 2
MaxIdChars == 3

\* ------------------------------------------------------------- constants
paramKafkaCluster == "kafka_cluster"
paramTopicName == "topic_name"
paramCredentials == "credentials"
paramPartitionsCount == "partitions_count"
paramConfigs == "config"
paramHttpEndpoint == "http_endpoint"
kafkaRestAPIWaitAfterCreate == 10

editableTopicSettings ==
    {"delete.retention.ms", "max.message.bytes", "max.compaction.lag.ms",
     "message.timestamp.difference.max.ms", "message.timestamp.type",
     "min.compaction.lag.ms", "min.insync.replicas", "retention.bytes",
     "retention.ms", "segment.bytes", "segment.ms"}

CONFIGSOURCE_DYNAMIC_TOPIC_CONFIG == "DYNAMIC_TOPIC_CONFIG"
CONFIGSOURCE_DEFAULT_CONFIG == "DEFAULT_CONFIG"

StatusNotFound == 404

\* A nil pointer / nil error.
Nil == "nil"
NoError == ""

\* -------------------------------------------------------- input domains
SettingNames == {"retention.ms", "segment.ms", "cleanup.policy"}
SettingValues == {"600000", "600001"}
ConfigMaps == UNION {[S -> SettingValues] : S \in SUBSET SettingNames}
EmptyMap == [x \in {} |-> 0]

ClusterIds == {<<"l", "k", "c", "-", "1">>, <<"l", "k", "c", "-", "2">>}
TopicNames == {<<"t", "1">>, <<"t", "2">>}
PartitionCounts == 1..MaxPartitions
Endpoints == {"http://a", "http://b"}
Credentials == {[key |-> "key1", secret |-> "secret1"],
                [key |-> "key2", secret |-> "secret2"]}
NoCredentials == [key |-> "", secret |-> ""]

\* Status codes the Kafka REST API answers with.
GetStatuses == {200, StatusNotFound, 500}
ListStatuses == {200, 500}
CreateStatuses == {201, 400}
UpdateStatuses == {204, 400}
DeleteStatuses == {204, 500}

\* -------------------------------------------------------------- helpers
Perms(S) == {f \in [1..Cardinality(S) -> S] : \A x \in S : \E i \in DOMAIN f : f[i] = x}

\* fmt.Sprintf("%s/%s", a, b)
SprintfSlash(a, b) == a \o <<"/">> \o b

\* strings.Split(s, sep) for a one-character separator
RECURSIVE Split(_, _)
Split(s, sep) ==
    IF \A i \in 1..Len(s) : s[i] # sep
    THEN <<s>>
    ELSE LET i == CHOOSE k \in 1..Len(s) : s[k] = sep /\ \A j \in 1..(k - 1) : s[j] # sep
         IN  <<SubSeq(s, 1, i - 1)>> \o Split(SubSeq(s, i + 1, Len(s)), sep)

\* One entry of the log of a handler invocation.
Ev(call, arg, status) == [call |-> call, arg |-> arg, status |-> status]

\* ------------------------------------------------ schema.ResourceData
\* d.SetId(id)
SetId(rd, id) == [rd EXCEPT !.id = id]
SetIdEv(id) == Ev("SetId", id, 0)

\* d.Set(key, value)
Set(rd, key, value) == [rd EXCEPT !.attrs[key] = value]
SetEv(key, value) == Ev("Set", <<key, value>>, 0)

\* d.MarkNewResource() / d.IsNewResource()
MarkNewResource(rd) == [rd EXCEPT !.isNew = TRUE]
IsNewResource(rd) == rd.isNew

\* d.HasChange(key): the planned value differs from the prior state
HasChange(rd, key) == rd.state[key] # rd.attrs[key]

\* d.HasChangesExcept(keys...)
HasChangesExcept(rd, keys) == \E k \in (DOMAIN rd.attrs) \ keys : HasChange(rd, k)

\* ResponseHasExpectedStatusCode(resp, code)
ResponseHasExpectedStatusCode(resp, code) == resp.status = code

\* meta.(*Client).kafkaRestClientFactory.CreateKafkaRestClient(...)
CreateKafkaRestClient(endpoint, clusterId, apiKey, apiSecret) ==
    [httpEndpoint |-> endpoint, clusterId |-> clusterId,
     clusterApiKey |-> apiKey, clusterApiSecret |-> apiSecret]

\* The SDK returns a non-nil error for every answer outside 2xx.
IsError(resp) == resp.status >= 300

\* ------------------------------------------------- remote API responses
\* GetKafkaV3Topic(clusterId, topicName): the topic, named as requested
GetTopicResponses(topicName) ==
    {[status |-> st, TopicName |-> topicName, PartitionsCount |-> 0] :
        st \in GetStatuses \ {200}}
    \cup {[status |-> 200, TopicName |-> topicName, PartitionsCount |-> p] :
        p \in PartitionCounts}

\* One entry of ListKafkaV3TopicConfigs: set explicitly (possibly null) or a default
RemoteEntries ==
    {[Source |-> CONFIGSOURCE_DYNAMIC_TOPIC_CONFIG, Value |-> v] :
        v \in SettingValues \cup {Nil}}
    \cup {[Source |-> CONFIGSOURCE_DEFAULT_CONFIG, Value |-> "600000"]}

\* ListKafkaV3TopicConfigs(clusterId, topicName): Data maps each listed name to its entry
ListConfigResponses ==
    {[status |-> st, Data |-> EmptyMap] : st \in ListStatuses \ {200}}
    \cup {[status |-> 200, Data |-> data] :
        data \in UNION {[S -> RemoteEntries] : S \in SUBSET SettingNames}}

CreateResponses == {[status |-> st] : st \in CreateStatuses}
UpdateResponses == {[status |-> st] : st \in UpdateStatuses}
DeleteResponses == {[status |-> st] : st \in DeleteStatuses}

\* Result of a handler (or of a helper that works on d)
Outcome(rd, log, e) == [d |-> rd, steps |-> log, err |-> e]

\* ------------------------------------------------------------ Kafka topic
createKafkaTopicId_NameFirst(clusterId, topicName) == SprintfSlash(topicName, clusterId)

createKafkaTopicId(clusterId, topicName) == SprintfSlash(clusterId, topicName)

\* The Kafka REST client a topic handler builds from d
TopicClient(rd) ==
    CreateKafkaRestClient(rd.attrs[paramHttpEndpoint], rd.attrs[paramKafkaCluster],
                          rd.attrs[paramCredentials].key, rd.attrs[paramCredentials].secret)

\* loadTopicConfigs: the dynamic, non-null settings of the listing
loadTopicConfigs_DefaultsToo(list) ==
    IF IsError(list)
    THEN [err |-> "could not load configs", config |-> EmptyMap]
    ELSE [err |-> NoError,
          config |-> [n \in {m \in DOMAIN list.Data : list.Data[m].Value # Nil}
                        |-> list.Data[n].Value]]

loadTopicConfigs(list) ==
    IF IsError(list)
    THEN [err |-> "could not load configs", config |-> EmptyMap]
    ELSE [err |-> NoError,
          config |-> [n \in {m \in DOMAIN list.Data :
                                /\ list.Data[m].Source = CONFIGSOURCE_DYNAMIC_TOPIC_CONFIG
                                /\ list.Data[m].Value # Nil}
                        |-> list.Data[n].Value]]

ListEv(c, topicName, list) ==
    Ev("ListKafkaV3TopicConfigs", <<c.clusterId, topicName, list>>, list.status)

\* readTopicAndSetAttributes, after a successful fetch (lines 326-352)
setTopicAttributes_DeclaredPartitions(rd, c, topicName, kafkaTopic, list) ==
    LET d1 == Set(rd, paramKafkaCluster, c.clusterId)
        d2 == Set(d1, paramTopicName, kafkaTopic.TopicName)
        d3 == Set(d2, paramPartitionsCount, rd.attrs[paramPartitionsCount])
        log3 == <<SetEv(paramKafkaCluster, c.clusterId),
                  SetEv(paramTopicName, kafkaTopic.TopicName),
                  SetEv(paramPartitionsCount, rd.attrs[paramPartitionsCount]),
                  ListEv(c, topicName, list)>>
        loaded == loadTopicConfigs(list)
        creds == [key |-> c.clusterApiKey, secret |-> c.clusterApiSecret]
        d4 == Set(d3, paramConfigs, loaded.config)
        d5 == Set(d4, paramCredentials, creds)
        d6 == Set(d5, paramHttpEndpoint, c.httpEndpoint)
        id == createKafkaTopicId(c.clusterId, topicName)
    IN  IF loaded.err # NoError
        THEN Outcome(d3, log3, loaded.err)
        ELSE Outcome(SetId(d6, id),
                     log3 \o <<SetEv(paramConfigs, loaded.config),
                               SetEv(paramCredentials, creds),
                               SetEv(paramHttpEndpoint, c.httpEndpoint),
                               SetIdEv(id)>>,
                     NoError)

setTopicAttributes(rd, c, topicName, kafkaTopic, list) ==
    LET d1 == Set(rd, paramKafkaCluster, c.clusterId)
        d2 == Set(d1, paramTopicName, kafkaTopic.TopicName)
        d3 == Set(d2, paramPartitionsCount, kafkaTopic.PartitionsCount)
        log3 == <<SetEv(paramKafkaCluster, c.clusterId),
                  SetEv(paramTopicName, kafkaTopic.TopicName),
                  SetEv(paramPartitionsCount, kafkaTopic.PartitionsCount),
                  ListEv(c, topicName, list)>>
        loaded == loadTopicConfigs(list)
        creds == [key |-> c.clusterApiKey, secret |-> c.clusterApiSecret]
        d4 == Set(d3, paramConfigs, loaded.config)
        d5 == Set(d4, paramCredentials, creds)
        d6 == Set(d5, paramHttpEndpoint, c.httpEndpoint)
        id == createKafkaTopicId(c.clusterId, topicName)
    IN  IF loaded.err # NoError
        THEN Outcome(d3, log3, loaded.err)
        ELSE Outcome(SetId(d6, id),
                     log3 \o <<SetEv(paramConfigs, loaded.config),
                               SetEv(paramCredentials, creds),
                               SetEv(paramHttpEndpoint, c.httpEndpoint),
                               SetIdEv(id)>>,
                     NoError)

\* Whether a failed fetch drops the resource from state (line 312)
dropsFromState_Never(rd, resp) == FALSE

dropsFromState_NewToo(rd, resp) == ResponseHasExpectedStatusCode(resp, StatusNotFound)

dropsFromState_AnyError(rd, resp) == ~IsNewResource(rd)

dropsFromState(rd, resp) ==
    ResponseHasExpectedStatusCode(resp, StatusNotFound) /\ ~IsNewResource(rd)

\* readTopicAndSetAttributes(ctx, d, c, topicName)
readTopicAndSetAttributes(rd, c, topicName, get, list) ==
    LET fetch == <<Ev("GetKafkaV3Topic", <<c.clusterId, topicName, get>>, get.status)>>
    IN  IF IsError(get)
        THEN IF dropsFromState(rd, get)
             THEN Outcome(SetId(rd, <<>>), fetch \o <<SetIdEv(<<>>)>>, NoError)
             ELSE Outcome(rd, fetch, "remote error")
        ELSE LET rest == setTopicAttributes(rd, c, topicName, get, list)
             IN  Outcome(rest.d, fetch \o rest.steps, rest.err)

\* kafkaTopicRead(ctx, d, meta)
kafkaTopicRead_NameFromId(rd, get, list) ==
    readTopicAndSetAttributes(rd, TopicClient(rd), rd.id, get, list)

kafkaTopicRead(rd, get, list) ==
    readTopicAndSetAttributes(rd, TopicClient(rd), rd.attrs[paramTopicName], get, list)

\* kafkaTopicCreate(ctx, d, meta)
kafkaTopicCreate_IdBeforeCall(rd, create, get, list) ==
    LET c == TopicClient(rd)
        topicName == rd.attrs[paramTopicName]
        createTopicRequest == [TopicName |-> topicName,
                               PartitionsCount |-> rd.attrs[paramPartitionsCount],
                               Configs |-> rd.attrs[paramConfigs]]
        call == <<Ev("CreateKafkaV3Topic", <<c.clusterId, createTopicRequest>>, create.status)>>
        kafkaTopicId == createKafkaTopicId(c.clusterId, topicName)
        d1 == SetId(rd, kafkaTopicId)
        read == kafkaTopicRead(d1, get, list)
    IN  IF IsError(create)
        THEN Outcome(d1, <<SetIdEv(kafkaTopicId)>> \o call, "error creating Kafka Topic")
        ELSE Outcome(read.d,
                     <<SetIdEv(kafkaTopicId)>> \o call
                          \o <<Ev("Sleep", kafkaRestAPIWaitAfterCreate, 0)>> \o read.steps,
                     read.err)

kafkaTopicCreate(rd, create, get, list) ==
    LET c == TopicClient(rd)
        topicName == rd.attrs[paramTopicName]
        createTopicRequest == [TopicName |-> topicName,
                               PartitionsCount |-> rd.attrs[paramPartitionsCount],
                               Configs |-> rd.attrs[paramConfigs]]
        call == <<Ev("CreateKafkaV3Topic", <<c.clusterId, createTopicRequest>>, create.status)>>
        kafkaTopicId == createKafkaTopicId(c.clusterId, topicName)
        d1 == SetId(rd, kafkaTopicId)
        read == kafkaTopicRead(d1, get, list)
    IN  IF IsError(create)
        THEN Outcome(rd, call, "error creating Kafka Topic")
        ELSE Outcome(read.d,
                     call \o <<SetIdEv(kafkaTopicId), Ev("Sleep", kafkaRestAPIWaitAfterCreate, 0)>>
                          \o read.steps,
                     read.err)

\* waitForKafkaTopicToBeDeleted(ctx, c, topicName): fetches the topic until the
\* fetch is answered 404; `polls` holds the statuses the fetches are answered
\* with, and the wait gives up when they run out
RECURSIVE waitForKafkaTopicToBeDeleted(_, _, _)
waitForKafkaTopicToBeDeleted(c, topicName, polls) ==
    IF polls = <<>>
    THEN [err |-> "timeout while waiting for the topic to be deleted", steps |-> <<>>]
    ELSE LET fetch == <<Ev("GetKafkaV3Topic", <<c.clusterId, topicName>>, Head(polls))>>
             rest == waitForKafkaTopicToBeDeleted(c, topicName, Tail(polls))
         IN  IF Head(polls) = StatusNotFound
             THEN [err |-> NoError, steps |-> fetch]
             ELSE IF Head(polls) >= 300
             THEN [err |-> "remote error", steps |-> fetch]
             ELSE [err |-> rest.err, steps |-> fetch \o rest.steps]

\* kafkaTopicDelete(ctx, d, meta)
kafkaTopicDelete_IgnoresWait(rd, del, polls) ==
    LET c == TopicClient(rd)
        topicName == rd.attrs[paramTopicName]
        call == <<Ev("DeleteKafkaV3Topic", <<c.clusterId, topicName>>, del.status)>>
        wait == waitForKafkaTopicToBeDeleted(c, topicName, polls)
    IN  IF IsError(del)
        THEN Outcome(rd, call, "error deleting Kafka Topic")
        ELSE Outcome(rd, call \o wait.steps, NoError)

kafkaTopicDelete(rd, del, polls) ==
    LET c == TopicClient(rd)
        topicName == rd.attrs[paramTopicName]
        call == <<Ev("DeleteKafkaV3Topic", <<c.clusterId, topicName>>, del.status)>>
        wait == waitForKafkaTopicToBeDeleted(c, topicName, polls)
    IN  IF IsError(del)
        THEN Outcome(rd, call, "error deleting Kafka Topic")
        ELSE IF wait.err # NoError
        THEN Outcome(rd, call \o wait.steps, "error waiting for Kafka Topic to be deleted")
        ELSE Outcome(rd, call \o wait.steps, NoError)

\* extractOldAndNewTopicSettings(d): d.GetChange(paramConfigs)
extractOldAndNewTopicSettings(rd) == <<rd.state[paramConfigs], rd.attrs[paramConfigs]>>

\* Settings of the old map that the new map no longer has (lines 372-378)
removedTopicSettings_UnlessAdded(oldTopicSettingsMap, newTopicSettingsMap) ==
    IF \E n \in DOMAIN newTopicSettingsMap : n \notin DOMAIN oldTopicSettingsMap
    THEN {}
    ELSE {n \in DOMAIN oldTopicSettingsMap : n \notin DOMAIN newTopicSettingsMap}

removedTopicSettings(oldTopicSettingsMap, newTopicSettingsMap) ==
    {n \in DOMAIN oldTopicSettingsMap : n \notin DOMAIN newTopicSettingsMap}

\* line 387
isTopicSettingValueUpdated_OnlyAdded(oldTopicSettingsMap, newTopicSettingsMap, topicSettingName) ==
    topicSettingName \notin DOMAIN oldTopicSettingsMap

isTopicSettingValueUpdated(oldTopicSettingsMap, newTopicSettingsMap, topicSettingName) ==
    ~(/\ topicSettingName \in DOMAIN oldTopicSettingsMap
      /\ oldTopicSettingsMap[topicSettingName] = newTopicSettingsMap[topicSettingName])

\* line 390: stringInSlice(topicSettingName, editableTopicSettings, false)
isTopicSettingEditable_CleanupPolicyToo(topicSettingName) ==
    topicSettingName \in editableTopicSettings \cup {"cleanup.policy"}

isTopicSettingEditable(topicSettingName) == topicSettingName \in editableTopicSettings

\* The loop over the new map (lines 385-401), in the order `order` in which Go
\* happens to iterate over its keys: the batch, or the error of the first
\* changed setting that is not editable.
RECURSIVE topicSettingsUpdateBatch(_, _, _, _)
topicSettingsUpdateBatch(order, oldTopicSettingsMap, newTopicSettingsMap, acc) ==
    IF order = <<>>
    THEN [err |-> NoError, batch |-> acc]
    ELSE LET topicSettingName == Head(order)
         IN  IF isTopicSettingValueUpdated(oldTopicSettingsMap, newTopicSettingsMap, topicSettingName)
             THEN IF isTopicSettingEditable(topicSettingName)
                  THEN topicSettingsUpdateBatch(Tail(order), oldTopicSettingsMap, newTopicSettingsMap,
                           Append(acc, [Name |-> topicSettingName,
                                        Value |-> newTopicSettingsMap[topicSettingName]]))
                  ELSE [err |-> "topic setting is read-only", batch |-> acc]
             ELSE topicSettingsUpdateBatch(Tail(order), oldTopicSettingsMap, newTopicSettingsMap, acc)

\* line 444: the re-read value of a batch entry differs from the requested one
isOutdated_AbsentToo(v, actualTopicSettings) ==
    v.Name \notin DOMAIN actualTopicSettings \/ actualTopicSettings[v.Name] # v.Value

isOutdated(v, actualTopicSettings) ==
    v.Name \in DOMAIN actualTopicSettings /\ actualTopicSettings[v.Name] # v.Value

\* lines 435-449
outdatedTopicSettings(batch, actualTopicSettings) ==
    LET Old(v) == isOutdated(v, actualTopicSettings)
        sel == SelectSeq(batch, Old)
    IN  [i \in DOMAIN sel |-> sel[i].Name]

updatedTopicSettings(batch, actualTopicSettings) ==
    LET New(v) == ~isOutdated(v, actualTopicSettings)
        sel == SelectSeq(batch, New)
    IN  [i \in DOMAIN sel |-> sel[i].Name]

\* lines 450-460: the diagnostics built for outdated settings are dropped,
\* the handler goes on and returns nil
verificationError(outdated) == NoError

NoLocals == [batch |-> <<>>, outdated |-> <<>>, updated |-> <<>>]

UpdateOutcome(rd, log, e, loc) == [d |-> rd, steps |-> log, err |-> e, locals |-> loc]

\* kafkaTopicUpdate, from the request on (lines 403-460)
submitTopicSettingsUpdate_NoWait(rd, batch, upd, list) ==
    LET c == TopicClient(rd)
        topicName == rd.attrs[paramTopicName]
        call == <<Ev("UpdateKafkaV3TopicConfigBatch", <<c.clusterId, topicName, batch>>, upd.status)>>
        wait == <<Ev("Sleep", kafkaRestAPIWaitAfterCreate, 0)>>
        loaded == loadTopicConfigs(list)
        reread == <<ListEv(c, topicName, list)>>
        outdated == outdatedTopicSettings(batch, loaded.config)
        updated == updatedTopicSettings(batch, loaded.config)
    IN  IF IsError(upd)
        THEN UpdateOutcome(rd, call, "remote error", [NoLocals EXCEPT !.batch = batch])
        ELSE IF loaded.err # NoError
        THEN UpdateOutcome(rd, call \o reread, loaded.err, [NoLocals EXCEPT !.batch = batch])
        ELSE UpdateOutcome(rd, call \o reread, verificationError(outdated),
                           [batch |-> batch, outdated |-> outdated, updated |-> updated])

submitTopicSettingsUpdate_StoresReread(rd, batch, upd, list) ==
    LET c == TopicClient(rd)
        topicName == rd.attrs[paramTopicName]
        call == <<Ev("UpdateKafkaV3TopicConfigBatch", <<c.clusterId, topicName, batch>>, upd.status)>>
        wait == <<Ev("Sleep", kafkaRestAPIWaitAfterCreate, 0)>>
        loaded == loadTopicConfigs(list)
        reread == <<ListEv(c, topicName, list)>>
        outdated == outdatedTopicSettings(batch, loaded.config)
        updated == updatedTopicSettings(batch, loaded.config)
    IN  IF IsError(upd)
        THEN UpdateOutcome(rd, call, "remote error", [NoLocals EXCEPT !.batch = batch])
        ELSE IF loaded.err # NoError
        THEN UpdateOutcome(rd, call \o wait \o reread, loaded.err, [NoLocals EXCEPT !.batch = batch])
        ELSE UpdateOutcome([rd EXCEPT !.attrs[paramConfigs] = loaded.config],
                           call \o wait \o reread, verificationError(outdated),
                           [batch |-> batch, outdated |-> outdated, updated |-> updated])

submitTopicSettingsUpdate(rd, batch, upd, list) ==
    LET c == TopicClient(rd)
        topicName == rd.attrs[paramTopicName]
        call == <<Ev("UpdateKafkaV3TopicConfigBatch", <<c.clusterId, topicName, batch>>, upd.status)>>
        wait == <<Ev("Sleep", kafkaRestAPIWaitAfterCreate, 0)>>
        loaded == loadTopicConfigs(list)
        reread == <<ListEv(c, topicName, list)>>
        outdated == outdatedTopicSettings(batch, loaded.config)
        updated == updatedTopicSettings(batch, loaded.config)
    IN  IF IsError(upd)
        THEN UpdateOutcome(rd, call, "remote error", [NoLocals EXCEPT !.batch = batch])
        ELSE IF loaded.err # NoError
        THEN UpdateOutcome(rd, call \o wait \o reread, loaded.err, [NoLocals EXCEPT !.batch = batch])
        ELSE UpdateOutcome(rd, call \o wait \o reread, verificationError(outdated),
                           [batch |-> batch, outdated |-> outdated, updated |-> updated])

\* line 356: the attributes an Update may change
topicUpdatableKeys_WithPartitions == {paramCredentials, paramConfigs, paramPartitionsCount}
topicUpdatableKeys == {paramCredentials, paramConfigs}

\* kafkaTopicUpdate(ctx, d, meta)
kafkaTopicUpdate_AlwaysSubmits(rd, order, upd, list) ==
    IF HasChangesExcept(rd, topicUpdatableKeys)
    THEN UpdateOutcome(rd, <<>>, "only credentials and config can be updated", NoLocals)
    ELSE LET oldTopicSettingsMap == extractOldAndNewTopicSettings(rd)[1]
             newTopicSettingsMap == extractOldAndNewTopicSettings(rd)[2]
             built == topicSettingsUpdateBatch(order, oldTopicSettingsMap, newTopicSettingsMap, <<>>)
         IN  IF removedTopicSettings(oldTopicSettingsMap, newTopicSettingsMap) # {}
             THEN UpdateOutcome(rd, <<>>, "removing topic settings is not supported", NoLocals)
             ELSE IF built.err # NoError
             THEN UpdateOutcome(rd, <<>>, built.err, NoLocals)
             ELSE submitTopicSettingsUpdate(rd, built.batch, upd, list)

kafkaTopicUpdate(rd, order, upd, list) ==
    IF HasChangesExcept(rd, topicUpdatableKeys)
    THEN UpdateOutcome(rd, <<>>, "only credentials and config can be updated", NoLocals)
    ELSE IF ~HasChange(rd, paramConfigs)
    THEN UpdateOutcome(rd, <<>>, NoError, NoLocals)
    ELSE LET oldTopicSettingsMap == extractOldAndNewTopicSettings(rd)[1]
             newTopicSettingsMap == extractOldAndNewTopicSettings(rd)[2]
             built == topicSettingsUpdateBatch(order, oldTopicSettingsMap, newTopicSettingsMap, <<>>)
         IN  IF removedTopicSettings(oldTopicSettingsMap, newTopicSettingsMap) # {}
             THEN UpdateOutcome(rd, <<>>, "removing topic settings is not supported", NoLocals)
             ELSE IF built.err # NoError
             THEN UpdateOutcome(rd, <<>>, built.err, NoLocals)
             ELSE submitTopicSettingsUpdate(rd, built.batch, upd, list)

\* -------------------------------------------------------------- Kafka ACL
paramResourceName == "resource_name"
paramResourceType == "resource_type"
paramPatternType == "pattern_type"
paramPrincipal == "principal"
paramHost == "host"
paramOperation == "operation"
paramPermission == "permission"
paramRestEndpoint == "rest_endpoint"
principalPrefix == <<"U", "s", "e", "r", ":">>

acceptedResourceTypes ==
    {<<"U", "N", "K", "N", "O", "W", "N">>,
     <<"A", "N", "Y">>,
     <<"T", "O", "P", "I", "C">>,
     <<"G", "R", "O", "U", "P">>,
     <<"C", "L", "U", "S", "T", "E", "R">>,
     <<"T", "R", "A", "N", "S", "A", "C", "T", "I", "O", "N", "A", "L", "_", "I", "D">>,
     <<"D", "E", "L", "E", "G", "A", "T", "I", "O", "N", "_", "T", "O", "K", "E", "N">>}
acceptedPatternTypes ==
    {<<"U", "N", "K", "N", "O", "W", "N">>,
     <<"A", "N", "Y">>,
     <<"M", "A", "T", "C", "H">>,
     <<"L", "I", "T", "E", "R", "A", "L">>,
     <<"P", "R", "E", "F", "I", "X", "E", "D">>}
acceptedOperations ==
    {<<"U", "N", "K", "N", "O", "W", "N">>,
     <<"A", "N", "Y">>,
     <<"A", "L", "L">>,
     <<"R", "E", "A", "D">>,
     <<"W", "R", "I", "T", "E">>,
     <<"C", "R", "E", "A", "T", "E">>,
     <<"D", "E", "L", "E", "T", "E">>,
     <<"A", "L", "T", "E", "R">>,
     <<"D", "E", "S", "C", "R", "I", "B", "E">>,
     <<"C", "L", "U", "S", "T", "E", "R", "_", "A", "C", "T", "I", "O", "N">>,
     <<"D", "E", "S", "C", "R", "I", "B", "E", "_", "C", "O", "N", "F", "I", "G", "S">>,
     <<"A", "L", "T", "E", "R", "_", "C", "O", "N", "F", "I", "G", "S">>,
     <<"I", "D", "E", "M", "P", "O", "T", "E", "N", "T", "_", "W", "R", "I", "T", "E">>}
acceptedPermissions ==
    {<<"U", "N", "K", "N", "O", "W", "N">>,
     <<"A", "N", "Y">>,
     <<"D", "E", "N", "Y">>,
     <<"A", "L", "L", "O", "W">>}

\* strings.HasPrefix(s, prefix)
HasPrefix(s, prefix) == Len(s) >= Len(prefix) /\ SubSeq(s, 1, Len(prefix)) = prefix

\* strings.Join(parts, sep)
RECURSIVE Join(_, _)
Join(parts, sep) ==
    IF parts = <<>> THEN <<>>
    ELSE IF Len(parts) = 1 THEN parts[1]
    ELSE parts[1] \o sep \o Join(Tail(parts), sep)

\* stringToAclResourceType, stringToAclPatternType, stringToAclOperation,
\* stringToAclPermission: the enumeration value of an accepted name, or an error
stringToAclEnum(accepted, str) ==
    IF str \in accepted THEN [err |-> NoError, value |-> str]
    ELSE [err |-> "unknown ACL enumeration value", value |-> <<>>]

Acl(resourceType, resourceName, patternType, principal, host, operation, permission) ==
    [ResourceType |-> resourceType, ResourceName |-> resourceName,
     PatternType |-> patternType, Principal |-> principal, Host |-> host,
     Operation |-> operation, Permission |-> permission]

NoAcl == Acl(<<>>, <<>>, <<>>, <<>>, <<>>, <<>>, <<>>)

\* The first error of the four conversions, in the order the code makes them
firstAclError(resourceType, patternType, operation, permission) ==
    IF resourceType.err # NoError THEN resourceType.err
    ELSE IF patternType.err # NoError THEN patternType.err
    ELSE IF operation.err # NoError THEN operation.err
    ELSE permission.err

\* extractAcl(d)
extractAcl(rd) ==
    LET resourceType == stringToAclEnum(acceptedResourceTypes, rd.attrs[paramResourceType])
        patternType == stringToAclEnum(acceptedPatternTypes, rd.attrs[paramPatternType])
        operation == stringToAclEnum(acceptedOperations, rd.attrs[paramOperation])
        permission == stringToAclEnum(acceptedPermissions, rd.attrs[paramPermission])
        e == firstAclError(resourceType, patternType, operation, permission)
    IN  IF e # NoError
        THEN [err |-> e, acl |-> NoAcl]
        ELSE [err |-> NoError,
              acl |-> Acl(resourceType.value, rd.attrs[paramResourceName], patternType.value,
                          rd.attrs[paramPrincipal], rd.attrs[paramHost],
                          operation.value, permission.value)]

\* createKafkaAclId(clusterId, acl)
createKafkaAclId_HostBeforePrincipal(clusterId, acl) ==
    SprintfSlash(clusterId,
                 Join(<<acl.ResourceType, acl.ResourceName, acl.PatternType, acl.Host,
                        acl.Principal, acl.Operation, acl.Permission>>, <<"#">>))

createKafkaAclId(clusterId, acl) ==
    SprintfSlash(clusterId,
                 Join(<<acl.ResourceType, acl.ResourceName, acl.PatternType, acl.Principal,
                        acl.Host, acl.Operation, acl.Permission>>, <<"#">>))

\* The Kafka REST client an ACL handler builds from d
AclClient(rd) ==
    CreateKafkaRestClient(rd.attrs[paramRestEndpoint], rd.attrs[paramKafkaCluster],
                          rd.attrs[paramCredentials].key, rd.attrs[paramCredentials].secret)

\* principalWithResourceIdToPrincipalWithIntegerId(client, principal): the
\* principal with the integer ID the control plane answers, or an error
principalWithResourceIdToPrincipalWithIntegerId(principal, tr) ==
    IF IsError(tr)
    THEN [err |-> "could not translate principal", principal |-> <<>>]
    ELSE [err |-> NoError, principal |-> principalPrefix \o tr.integerId]

\* The lookup of a principal in the log: the principal asked for and the
\* integer ID answered
TranslateEv(principal, tr) ==
    Ev("principalWithResourceIdToPrincipalWithIntegerId", <<principal, tr.integerId>>, tr.status)

\* The seven-tuple sent to the Kafka REST API: acl with the translated principal
AclRequest(acl, principalWithIntegerId) == [acl EXCEPT !.Principal = principalWithIntegerId]

\* readAclAndSetAttributes, after a successful query with one match (lines 332-372)
setAclAttributes_RemotePrincipal(rd, c, acl, matchedAcl) ==
    LET creds == [key |-> c.clusterApiKey, secret |-> c.clusterApiSecret]
        id == createKafkaAclId(c.clusterId, acl)
        d1 == Set(rd, paramKafkaCluster, c.clusterId)
        d2 == Set(d1, paramResourceType, matchedAcl.ResourceType)
        d3 == Set(d2, paramResourceName, matchedAcl.ResourceName)
        d4 == Set(d3, paramPatternType, matchedAcl.PatternType)
        d5 == Set(d4, paramPrincipal, matchedAcl.Principal)
        d6 == Set(d5, paramHost, matchedAcl.Host)
        d7 == Set(d6, paramOperation, matchedAcl.Operation)
        d8 == Set(d7, paramPermission, matchedAcl.Permission)
        d9 == Set(d8, paramCredentials, creds)
        d10 == Set(d9, paramRestEndpoint, c.httpEndpoint)
    IN  Outcome(SetId(d10, id),
                <<SetEv(paramKafkaCluster, c.clusterId),
                  SetEv(paramResourceType, matchedAcl.ResourceType),
                  SetEv(paramResourceName, matchedAcl.ResourceName),
                  SetEv(paramPatternType, matchedAcl.PatternType),
                  SetEv(paramPrincipal, matchedAcl.Principal),
                  SetEv(paramHost, matchedAcl.Host),
                  SetEv(paramOperation, matchedAcl.Operation),
                  SetEv(paramPermission, matchedAcl.Permission),
                  SetEv(paramCredentials, creds),
                  SetEv(paramRestEndpoint, c.httpEndpoint),
                  SetIdEv(id)>>,
                NoError)

setAclAttributes(rd, c, acl, matchedAcl) ==
    LET creds == [key |-> c.clusterApiKey, secret |-> c.clusterApiSecret]
        id == createKafkaAclId(c.clusterId, acl)
        d1 == Set(rd, paramKafkaCluster, c.clusterId)
        d2 == Set(d1, paramResourceType, matchedAcl.ResourceType)
        d3 == Set(d2, paramResourceName, matchedAcl.ResourceName)
        d4 == Set(d3, paramPatternType, matchedAcl.PatternType)
        d5 == Set(d4, paramPrincipal, acl.Principal)
        d6 == Set(d5, paramHost, matchedAcl.Host)
        d7 == Set(d6, paramOperation, matchedAcl.Operation)
        d8 == Set(d7, paramPermission, matchedAcl.Permission)
        d9 == Set(d8, paramCredentials, creds)
        d10 == Set(d9, paramRestEndpoint, c.httpEndpoint)
    IN  Outcome(SetId(d10, id),
                <<SetEv(paramKafkaCluster, c.clusterId),
                  SetEv(paramResourceType, matchedAcl.ResourceType),
                  SetEv(paramResourceName, matchedAcl.ResourceName),
                  SetEv(paramPatternType, matchedAcl.PatternType),
                  SetEv(paramPrincipal, acl.Principal),
                  SetEv(paramHost, matchedAcl.Host),
                  SetEv(paramOperation, matchedAcl.Operation),
                  SetEv(paramPermission, matchedAcl.Permission),
                  SetEv(paramCredentials, creds),
                  SetEv(paramRestEndpoint, c.httpEndpoint),
                  SetIdEv(id)>>,
                NoError)

\* readAclAndSetAttributes(ctx, d, client, c, acl)
readAclAndSetAttributes_EmptyDrops(rd, c, acl, tr, get) ==
    LET translated == principalWithResourceIdToPrincipalWithIntegerId(acl.Principal, tr)
        lookup == <<TranslateEv(acl.Principal, tr)>>
        opts == AclRequest(acl, translated.principal)
        query == <<Ev("GetKafkaV3Acls", <<c.clusterId, opts, get>>, get.status)>>
    IN  IF translated.err # NoError
        THEN Outcome(rd, lookup, translated.err)
        ELSE IF IsError(get)
        THEN IF dropsFromState(rd, get)
             THEN Outcome(SetId(rd, <<>>), lookup \o query \o <<SetIdEv(<<>>)>>, NoError)
             ELSE Outcome(rd, lookup \o query, "remote error")
        ELSE IF Len(get.Data) = 0
        THEN Outcome(SetId(rd, <<>>), lookup \o query \o <<SetIdEv(<<>>)>>, NoError)
        ELSE IF Len(get.Data) > 1
        THEN Outcome(rd, lookup \o query, "multiple Kafka ACLs were matched")
        ELSE LET rest == setAclAttributes(rd, c, acl, get.Data[1])
             IN  Outcome(rest.d, lookup \o query \o rest.steps, rest.err)

readAclAndSetAttributes(rd, c, acl, tr, get) ==
    LET translated == principalWithResourceIdToPrincipalWithIntegerId(acl.Principal, tr)
        lookup == <<TranslateEv(acl.Principal, tr)>>
        opts == AclRequest(acl, translated.principal)
        query == <<Ev("GetKafkaV3Acls", <<c.clusterId, opts, get>>, get.status)>>
    IN  IF translated.err # NoError
        THEN Outcome(rd, lookup, translated.err)
        ELSE IF IsError(get)
        THEN IF dropsFromState(rd, get)
             THEN Outcome(SetId(rd, <<>>), lookup \o query \o <<SetIdEv(<<>>)>>, NoError)
             ELSE Outcome(rd, lookup \o query, "remote error")
        ELSE IF Len(get.Data) = 0
        THEN Outcome(rd, lookup \o query, "no Kafka ACLs were matched")
        ELSE IF Len(get.Data) > 1
        THEN Outcome(rd, lookup \o query, "multiple Kafka ACLs were matched")
        ELSE LET rest == setAclAttributes(rd, c, acl, get.Data[1])
             IN  Outcome(rest.d, lookup \o query \o rest.steps, rest.err)

\* line 272: the principal in state is in the resource-ID form
hasResourceIdPrincipal_AnyUser(acl) == HasPrefix(acl.Principal, principalPrefix)

hasResourceIdPrincipal(acl) ==
    HasPrefix(acl.Principal, <<"U", "s", "e", "r", ":", "s", "a", "-">>) \/ HasPrefix(acl.Principal, <<"U", "s", "e", "r", ":", "u", "-">>)

\* kafkaAclRead(ctx, d, meta)
kafkaAclRead(rd, tr, get) ==
    LET extracted == extractAcl(rd)
    IN  IF extracted.err # NoError
        THEN Outcome(rd, <<>>, extracted.err)
        ELSE IF ~hasResourceIdPrincipal(extracted.acl)
        THEN Outcome(SetId(rd, <<>>), <<SetIdEv(<<>>)>>, NoError)
        ELSE readAclAndSetAttributes(rd, AclClient(rd), extracted.acl, tr, get)

\* kafkaAclCreate(ctx, d, meta)
kafkaAclCreate(rd, trCreate, create, tr, get) ==
    LET c == AclClient(rd)
        extracted == extractAcl(rd)
        acl == extracted.acl
        translated == principalWithResourceIdToPrincipalWithIntegerId(acl.Principal, trCreate)
        lookup == <<TranslateEv(acl.Principal, trCreate)>>
        createAclRequest == AclRequest(acl, translated.principal)
        call == <<Ev("CreateKafkaV3Acls", <<c.clusterId, createAclRequest>>, create.status)>>
        kafkaAclId == createKafkaAclId(c.clusterId, acl)
        d1 == SetId(rd, kafkaAclId)
        read == kafkaAclRead(d1, tr, get)
    IN  IF extracted.err # NoError
        THEN Outcome(rd, <<>>, extracted.err)
        ELSE IF translated.err # NoError
        THEN Outcome(rd, lookup, translated.err)
        ELSE IF IsError(create)
        THEN Outcome(rd, lookup \o call, "error creating Kafka ACLs")
        ELSE Outcome(read.d,
                     lookup \o call
                        \o <<SetIdEv(kafkaAclId), Ev("Sleep", kafkaRestAPIWaitAfterCreate, 0)>>
                        \o read.steps,
                     read.err)

\* kafkaAclDelete(ctx, d, meta)
kafkaAclDelete(rd, tr, del) ==
    LET c == AclClient(rd)
        extracted == extractAcl(rd)
        acl == extracted.acl
        translated == principalWithResourceIdToPrincipalWithIntegerId(acl.Principal, tr)
        lookup == <<TranslateEv(acl.Principal, tr)>>
        opts == AclRequest(acl, translated.principal)
        call == <<Ev("DeleteKafkaV3Acls", <<c.clusterId, opts>>, del.status)>>
    IN  IF extracted.err # NoError
        THEN Outcome(rd, <<>>, extracted.err)
        ELSE IF translated.err # NoError
        THEN Outcome(rd, lookup, translated.err)
        ELSE IF IsError(del)
        THEN Outcome(rd, lookup \o call, "error deleting Kafka ACLs")
        ELSE Outcome(rd, lookup \o call, NoError)

\* line 446: the attributes an Update may change
aclUpdatableKeys_WithHost == {paramCredentials, paramHost}
aclUpdatableKeys == {paramCredentials}

\* kafkaAclUpdate(ctx, d, meta)
kafkaAclUpdate(rd, tr, get) ==
    IF HasChangesExcept(rd, aclUpdatableKeys)
    THEN Outcome(rd, <<>>, "only credentials can be updated")
    ELSE kafkaAclRead(rd, tr, get)

\* deserializeAcl(serializedAcl)
deserializeAcl(serializedAcl) ==
    LET parts == Split(serializedAcl, "#")
    IN  IF Len(parts) # 7
        THEN [err |-> "invalid format for kafka ACL import", acl |-> NoAcl]
        ELSE LET resourceType == stringToAclEnum(acceptedResourceTypes, parts[1])
                 patternType == stringToAclEnum(acceptedPatternTypes, parts[3])
                 operation == stringToAclEnum(acceptedOperations, parts[6])
                 permission == stringToAclEnum(acceptedPermissions, parts[7])
                 e == firstAclError(resourceType, patternType, operation, permission)
             IN  IF e # NoError
                 THEN [err |-> e, acl |-> NoAcl]
                 ELSE [err |-> NoError,
                       acl |-> Acl(resourceType.value, parts[2], patternType.value, parts[4],
                                   parts[5], operation.value, permission.value)]

\* kafkaAclImport(ctx, d, meta)
kafkaAclImport(rd, env, tr, get) ==
    LET parts == Split(rd.id, "/")
    IN  IF env.err # NoError
        THEN Outcome(rd, <<>>, env.err)
        ELSE IF Len(parts) # 2
        THEN Outcome(rd, <<>>, "error importing Kafka ACLs: invalid format")
        ELSE LET deserialized == deserializeAcl(parts[2])
                 c == CreateKafkaRestClient(env.kafkaHttpEndpoint, parts[1],
                                            env.kafkaApiKey, env.kafkaApiSecret)
                 read == readAclAndSetAttributes(MarkNewResource(rd), c, deserialized.acl, tr, get)
             IN  IF deserialized.err # NoError
                 THEN Outcome(rd, <<>>, deserialized.err)
                 ELSE IF read.err # NoError
                 THEN Outcome(read.d, read.steps, "error importing Kafka ACLs")
                 ELSE read

\* kafkaTopicImport(ctx, d, meta)
kafkaTopicImport_AtLeastTwoParts(rd, env, get, list) ==
    LET parts == Split(rd.id, "/")
    IN  IF env.err # NoError
        THEN Outcome(rd, <<>>, env.err)
        ELSE IF Len(parts) < 2
        THEN Outcome(rd, <<>>, "error importing Kafka Topic: invalid format")
        ELSE LET c == CreateKafkaRestClient(env.kafkaHttpEndpoint, parts[1],
                                            env.kafkaApiKey, env.kafkaApiSecret)
                 read == readTopicAndSetAttributes(MarkNewResource(rd), c, parts[2], get, list)
             IN  IF read.err # NoError
                 THEN Outcome(read.d, read.steps, "error importing Kafka Topic")
                 ELSE read

kafkaTopicImport(rd, env, get, list) ==
    LET parts == Split(rd.id, "/")
    IN  IF env.err # NoError
        THEN Outcome(rd, <<>>, env.err)
        ELSE IF Len(parts) # 2
        THEN Outcome(rd, <<>>, "error importing Kafka Topic: invalid format")
        ELSE LET c == CreateKafkaRestClient(env.kafkaHttpEndpoint, parts[1],
                                            env.kafkaApiKey, env.kafkaApiSecret)
                 read == readTopicAndSetAttributes(MarkNewResource(rd), c, parts[2], get, list)
             IN  IF read.err # NoError
                 THEN Outcome(read.d, read.steps, "error importing Kafka Topic")
                 ELSE read

\* ------------------------------------------------- the hosting runtime
\* Attributes of a topic resource
TopicAttrs(cluster, topic, partitions, config, creds, endpoint) ==
    [kafka_cluster |-> cluster, topic_name |-> topic, partitions_count |-> partitions,
     config |-> config, credentials |-> creds, http_endpoint |-> endpoint]

NoTopicAttrs == TopicAttrs(<<>>, <<>>, 0, EmptyMap, NoCredentials, "")

\* Topic configurations a user can declare
TopicPlans ==
    {TopicAttrs(k, t, p, cfg, cr, e) :
        k \in ClusterIds, t \in TopicNames, p \in PartitionCounts,
        cfg \in ConfigMaps, cr \in Credentials, e \in Endpoints}

\* The credentials and the endpoint the stored resources were created with
StoredCredentials == [key |-> "key1", secret |-> "secret1"]
StoredEndpoint == "http://a"

\* Topic resources in the orchestrator's state: what an earlier Create, Read or
\* Import stored
StoredTopics ==
    {[id |-> createKafkaTopicId(k, t), isNew |-> FALSE,
      state |-> TopicAttrs(k, t, p, cfg, StoredCredentials, StoredEndpoint),
      attrs |-> TopicAttrs(k, t, p, cfg, StoredCredentials, StoredEndpoint)] :
        k \in ClusterIds, t \in TopicNames, p \in PartitionCounts, cfg \in ConfigMaps}

\* The stored topics an Update is planned over: they differ in their settings
UpdatedTopics ==
    {s \in StoredTopics :
        /\ s.attrs[paramKafkaCluster] = <<"l", "k", "c", "-", "1">>
        /\ s.attrs[paramTopicName] = <<"t", "1">>
        /\ s.attrs[paramPartitionsCount] = 1}

\* checkEnvironmentVariablesForKafkaImportAreSet(): the endpoint and the
\* credentials of the environment, or an error when one is not set
ImportEnvs ==
    {[err |-> NoError, kafkaHttpEndpoint |-> "http://b",
      kafkaApiKey |-> "key2", kafkaApiSecret |-> "secret2"],
     [err |-> "environment variable is not set", kafkaHttpEndpoint |-> "",
      kafkaApiKey |-> "", kafkaApiSecret |-> ""]}

\* Identifiers a user can ask to import a topic by
TopicImportIds ==
    {createKafkaTopicId(k, t) : k \in ClusterIds, t \in TopicNames}
    \cup ClusterIds
    \cup {SprintfSlash(createKafkaTopicId(k, t), t) : k \in ClusterIds, t \in TopicNames}
    \cup {<<>>}

\* Attributes of an ACL resource
AclAttrs(cluster, acl, creds, endpoint) ==
    [kafka_cluster |-> cluster, resource_type |-> acl.ResourceType,
     resource_name |-> acl.ResourceName, pattern_type |-> acl.PatternType,
     principal |-> acl.Principal, host |-> acl.Host, operation |-> acl.Operation,
     permission |-> acl.Permission, rest_endpoint |-> endpoint, credentials |-> creds]

NoAclAttrs == AclAttrs(<<>>, NoAcl, NoCredentials, "")

\* Principals in the resource-ID form the schema asks for, and in the
\* integer-ID form that states written by old provider versions hold
ResourceIdPrincipals == {<<"U", "s", "e", "r", ":", "s", "a", "-", "1">>, <<"U", "s", "e", "r", ":", "u", "-", "1">>}
IntegerIdPrincipals == {<<"U", "s", "e", "r", ":", "1">>}

AclTuples ==
    {Acl(rt, rn, pt, pr, h, o, pm) :
        rt \in {<<"T", "O", "P", "I", "C">>, <<"G", "R", "O", "U", "P">>}, rn \in {<<"a">>, <<"b">>},
        pt \in {<<"L", "I", "T", "E", "R", "A", "L">>, <<"P", "R", "E", "F", "I", "X", "E", "D">>}, pr \in ResourceIdPrincipals,
        h \in {<<"*">>, <<"h">>}, o \in {<<"R", "E", "A", "D">>, <<"W", "R", "I", "T", "E">>}, pm \in {<<"A", "L", "L", "O", "W">>, <<"D", "E", "N", "Y">>}}

\* ACL configurations a user can declare
AclPlans ==
    {AclAttrs(k, acl, cr, e) :
        k \in ClusterIds, acl \in AclTuples, cr \in Credentials, e \in Endpoints}

\* ACL resources in the orchestrator's state
StoredAclTuples ==
    {Acl(<<"T", "O", "P", "I", "C">>, <<"a">>, <<"L", "I", "T", "E", "R", "A", "L">>, pr, <<"*">>, o, <<"A", "L", "L", "O", "W">>) :
        pr \in ResourceIdPrincipals \cup IntegerIdPrincipals, o \in {<<"R", "E", "A", "D">>, <<"W", "R", "I", "T", "E">>}}

StoredAcls ==
    {[id |-> createKafkaAclId(k, acl), isNew |-> FALSE,
      state |-> AclAttrs(k, acl, StoredCredentials, StoredEndpoint),
      attrs |-> AclAttrs(k, acl, StoredCredentials, StoredEndpoint)] :
        k \in ClusterIds, acl \in StoredAclTuples}

\* Identifiers a user can ask to import an ACL by
AclImportIds ==
    {s.id : s \in StoredAcls}
    \cup ClusterIds
    \cup {SprintfSlash(s.id, <<"x">>) : s \in StoredAcls}
    \cup {SprintfSlash(k, Join(<<<<"T", "O", "P", "I", "C">>, <<"a">>, <<"L", "I", "T", "E", "R", "A", "L">>>>, <<"#">>)) : k \in ClusterIds}
    \cup {SprintfSlash(k, Join(<<<<"t", "o", "p", "i", "c">>, <<"a">>, <<"L", "I", "T", "E", "R", "A", "L">>, <<"U", "s", "e", "r", ":", "s", "a", "-", "1">>, <<"*">>, <<"R", "E", "A", "D">>,
                                 <<"A", "L", "L", "O", "W">>>>, <<"#">>)) : k \in ClusterIds}

\* Answers of the control plane to the lookup of a principal's integer ID
TranslateResponses == {[status |-> 200, integerId |-> <<"7">>], [status |-> 500, integerId |-> <<>>]}

\* GetKafkaV3Acls(clusterId, opts): the ACLs that match the filter
GetAclResponses(opts) ==
    {[status |-> st, Data |-> <<>>] : st \in GetStatuses \ {200}}
    \cup {[status |-> 200, Data |-> [i \in 1..n |-> opts]] : n \in 0..MaxMatched}

NoData == [id |-> <<>>, isNew |-> FALSE, state |-> NoTopicAttrs, attrs |-> NoTopicAttrs]

\* The answer to a call that is never made
Unasked ==
    [status |-> 0, Data |-> EmptyMap, TopicName |-> <<>>, PartitionsCount |-> 0,
     integerId |-> <<>>]

\* Whether the log holds a call of this name
Asked(log, call) == \E i \in DOMAIN log : log[i].call = call

\* The answers to draw for a call: those of `responses` when the handler, run
\* on `log`, makes the call
Drawn(log, call, responses) == IF Asked(log, call) THEN responses ELSE {Unasked}

Idle == op = "None"

Finish(name, rd0, out, loc) ==
    /\ op' = name
    /\ dIn' = rd0
    /\ d' = out.d
    /\ steps' = out.steps
    /\ err' = out.err
    /\ locals' = loc
    /\ idOf' = idOf

Init ==
    /\ op = "None"
    /\ dIn = NoData
    /\ d = NoData
    /\ steps = <<>>
    /\ err = NoError
    /\ locals = NoLocals
    /\ idOf = <<>>

\* schema.Resource.CreateContext of kafkaTopicResource(): the runtime marks the
\* data of a resource it is about to create as new
TopicCreate ==
    /\ Idle
    /\ \E plan \in TopicPlans, create \in CreateResponses :
         /\ plan[paramCredentials] = StoredCredentials
         /\ plan[paramHttpEndpoint] = StoredEndpoint
         /\ LET rd0 == [id |-> <<>>, isNew |-> TRUE, state |-> NoTopicAttrs, attrs |-> plan]
            IN  \E get \in Drawn(kafkaTopicCreate(rd0, create, Unasked, Unasked).steps,
                                 "GetKafkaV3Topic", GetTopicResponses(plan[paramTopicName])) :
                \E list \in Drawn(kafkaTopicCreate(rd0, create, get, Unasked).steps,
                                  "ListKafkaV3TopicConfigs", ListConfigResponses) :
                    Finish("TopicCreate", rd0, kafkaTopicCreate(rd0, create, get, list), NoLocals)

\* schema.Resource.ReadContext
TopicRead ==
    /\ Idle
    /\ \E rd0 \in StoredTopics :
         \E get \in GetTopicResponses(rd0.attrs[paramTopicName]) :
         \E list \in Drawn(kafkaTopicRead(rd0, get, Unasked).steps,
                           "ListKafkaV3TopicConfigs", ListConfigResponses) :
            Finish("TopicRead", rd0, kafkaTopicRead(rd0, get, list), NoLocals)

\* The resource data the runtime hands to the next handler after a Read: what
\* the Read wrote is the stored state
Refreshed(rd) == [id |-> rd.id, isNew |-> FALSE, state |-> rd.attrs, attrs |-> rd.attrs]

\* The answers of a remote that has not changed since `log` was written: to a
\* request of `log` the answer it gave then, to another request any answer
UnchangedRemote(log, call, request, responses) ==
    LET same == {i \in DOMAIN log : /\ log[i].call = call
                                    /\ log[i].arg[1] = request[1]
                                    /\ log[i].arg[2] = request[2]}
    IN  IF same = {} THEN responses ELSE {log[i].arg[3] : i \in same}

\* The request of this call that the log holds
Request(log, call) == log[CHOOSE i \in DOMAIN log : log[i].call = call].arg

\* schema.Resource.ReadContext, run again on what a successful Read left and
\* with no remote change in between
TopicReadAgain ==
    /\ op = "TopicRead"
    /\ err = NoError
    /\ d.id # <<>>
    /\ LET rd1 == Refreshed(d)
           fetch == Request(kafkaTopicRead(rd1, Unasked, Unasked).steps, "GetKafkaV3Topic")
       IN  \E get \in UnchangedRemote(steps, "GetKafkaV3Topic", fetch,
                                      GetTopicResponses(fetch[2])) :
           \E list \in (IF Asked(kafkaTopicRead(rd1, get, Unasked).steps, "ListKafkaV3TopicConfigs")
                        THEN UnchangedRemote(steps, "ListKafkaV3TopicConfigs",
                                             Request(kafkaTopicRead(rd1, get, Unasked).steps,
                                                     "ListKafkaV3TopicConfigs"),
                                             ListConfigResponses)
                        ELSE {Unasked}) :
              Finish("TopicReadAgain", rd1, kafkaTopicRead(rd1, get, list), NoLocals)

\* The answers a run of polls can get: every poll but the last finds the topic
\* still there, and only a run of MaxPolls polls may end so
PollRuns ==
    {p \in UNION {[1..n -> GetStatuses] : n \in 1..MaxPolls} :
        /\ \A i \in 1..(Len(p) - 1) : p[i] = 200
        /\ Len(p) < MaxPolls => p[Len(p)] # 200}

\* schema.Resource.DeleteContext of kafkaTopicResource()
TopicDelete ==
    /\ Idle
    /\ \E rd0 \in StoredTopics, del \in DeleteResponses :
         \E polls \in (IF Asked(kafkaTopicDelete(rd0, del, <<200>>).steps, "GetKafkaV3Topic")
                       THEN PollRuns ELSE {<<>>}) :
            Finish("TopicDelete", rd0, kafkaTopicDelete(rd0, del, polls), NoLocals)

\* schema.Resource.UpdateContext: d holds the planned values over the prior state
TopicUpdate ==
    /\ Idle
    /\ \E prior \in UpdatedTopics, plan \in TopicPlans :
         \E order \in Perms(DOMAIN plan[paramConfigs]) :
            LET rd0 == [prior EXCEPT !.attrs = plan]
            IN  \E upd \in Drawn(kafkaTopicUpdate(rd0, order, Unasked, Unasked).steps,
                                 "UpdateKafkaV3TopicConfigBatch", UpdateResponses) :
                \E list \in Drawn(kafkaTopicUpdate(rd0, order, upd, Unasked).steps,
                                  "ListKafkaV3TopicConfigs", ListConfigResponses) :
                    LET out == kafkaTopicUpdate(rd0, order, upd, list)
                    IN  Finish("TopicUpdate", rd0, out, out.locals)

\* schema.ResourceImporter.StateContext of kafkaTopicResource(): d holds the ID
TopicImport ==
    /\ Idle
    /\ \E id \in TopicImportIds, env \in ImportEnvs :
         LET rd0 == [NoData EXCEPT !.id = id]
             parts == Split(id, "/")
             topicName == IF Len(parts) = 2 THEN parts[2] ELSE <<>>
         IN  \E get \in Drawn(kafkaTopicImport(rd0, env, Unasked, Unasked).steps,
                              "GetKafkaV3Topic", GetTopicResponses(topicName)) :
             \E list \in Drawn(kafkaTopicImport(rd0, env, get, Unasked).steps,
                               "ListKafkaV3TopicConfigs", ListConfigResponses) :
                 Finish("TopicImport", rd0, kafkaTopicImport(rd0, env, get, list), NoLocals)

\* The ACL the Kafka REST API holds for the ACL of d, under the integer ID `tr`
RemoteAcl(acl, tr) == AclRequest(acl, principalPrefix \o tr.integerId)

NoAclData == [id |-> <<>>, isNew |-> FALSE, state |-> NoAclAttrs, attrs |-> NoAclAttrs]

\* schema.Resource.CreateContext of kafkaAclResource().  The principal is looked
\* up twice, before the create call (trCreate) and again by the Read that
\* follows the wait (tr).
AclCreate ==
    /\ Idle
    /\ \E plan \in AclPlans :
         /\ plan[paramCredentials] = StoredCredentials
         /\ plan[paramRestEndpoint] = StoredEndpoint
         /\ LET rd0 == [id |-> <<>>, isNew |-> TRUE, state |-> NoAclAttrs, attrs |-> plan]
                acl == extractAcl(rd0).acl
            IN  \E trCreate \in TranslateResponses :
                \E create \in Drawn(kafkaAclCreate(rd0, trCreate, Unasked, Unasked, Unasked).steps,
                                    "CreateKafkaV3Acls", CreateResponses) :
                \E tr \in Drawn(kafkaAclCreate(rd0, trCreate, create, Unasked, Unasked).steps,
                                "Sleep", TranslateResponses) :
                \E get \in Drawn(kafkaAclCreate(rd0, trCreate, create, tr, Unasked).steps,
                                 "GetKafkaV3Acls", GetAclResponses(RemoteAcl(acl, tr))) :
                    Finish("AclCreate", rd0, kafkaAclCreate(rd0, trCreate, create, tr, get), NoLocals)

\* schema.Resource.ReadContext
AclRead ==
    /\ Idle
    /\ \E rd0 \in StoredAcls :
         \E tr \in Drawn(kafkaAclRead(rd0, Unasked, Unasked).steps,
                         "principalWithResourceIdToPrincipalWithIntegerId", TranslateResponses) :
         \E get \in Drawn(kafkaAclRead(rd0, tr, Unasked).steps,
                          "GetKafkaV3Acls", GetAclResponses(RemoteAcl(extractAcl(rd0).acl, tr))) :
            Finish("AclRead", rd0, kafkaAclRead(rd0, tr, get), NoLocals)

\* schema.Resource.DeleteContext of kafkaAclResource()
AclDelete ==
    /\ Idle
    /\ \E rd0 \in StoredAcls :
         \E tr \in Drawn(kafkaAclDelete(rd0, Unasked, Unasked).steps,
                         "principalWithResourceIdToPrincipalWithIntegerId", TranslateResponses) :
         \E del \in Drawn(kafkaAclDelete(rd0, tr, Unasked).steps,
                          "DeleteKafkaV3Acls", DeleteResponses) :
            Finish("AclDelete", rd0, kafkaAclDelete(rd0, tr, del), NoLocals)

\* schema.Resource.UpdateContext
AclUpdate ==
    /\ Idle
    /\ \E prior \in StoredAcls, plan \in AclPlans :
         LET rd0 == [prior EXCEPT !.attrs = plan]
         IN  \E tr \in Drawn(kafkaAclUpdate(rd0, Unasked, Unasked).steps,
                             "principalWithResourceIdToPrincipalWithIntegerId", TranslateResponses) :
             \E get \in Drawn(kafkaAclUpdate(rd0, tr, Unasked).steps,
                              "GetKafkaV3Acls", GetAclResponses(RemoteAcl(extractAcl(rd0).acl, tr))) :
                Finish("AclUpdate", rd0, kafkaAclUpdate(rd0, tr, get), NoLocals)

\* schema.ResourceImporter.StateContext of kafkaAclResource()
AclImport ==
    /\ Idle
    /\ \E id \in AclImportIds, env \in ImportEnvs :
         LET rd0 == [NoAclData EXCEPT !.id = id]
             parts == Split(id, "/")
             acl == IF Len(parts) = 2 THEN deserializeAcl(parts[2]).acl ELSE NoAcl
         IN  \E tr \in Drawn(kafkaAclImport(rd0, env, Unasked, Unasked).steps,
                             "principalWithResourceIdToPrincipalWithIntegerId", TranslateResponses) :
             \E get \in Drawn(kafkaAclImport(rd0, env, tr, Unasked).steps,
                              "GetKafkaV3Acls", GetAclResponses(RemoteAcl(acl, tr))) :
                Finish("AclImport", rd0, kafkaAclImport(rd0, env, tr, get), NoLocals)

\* The handler has returned; the runtime takes the next operation
Return ==
    /\ ~Idle
    /\ op' = "None"
    /\ dIn' = NoData
    /\ d' = NoData
    /\ steps' = <<>>
    /\ err' = NoError
    /\ locals' = NoLocals
    /\ idOf' = idOf

Next ==
    \/ TopicCreate
    \/ TopicRead
    \/ TopicReadAgain
    \/ TopicUpdate
    \/ TopicDelete
    \/ TopicImport
    \/ AclCreate
    \/ AclRead
    \/ AclUpdate
    \/ AclDelete
    \/ AclImport
    \/ Return

Spec == Init /\ [][Next]_vars

\* ------------------------------------------- identifiers and their parsing
\* The characters of the strings an identifier is built of: two plain ones and
\* the two separators
IdChars == {"a", "b", "/", "#"}

\* The strings of at most MaxIdChars characters
IdStrings == UNION {[1..n -> IdChars] : n \in 0..MaxIdChars}

\* A cluster ID and a topic name: the string str cut in two at c
IdTopicKey(str, c) == <<SubSeq(str, 1, c), SubSeq(str, c + 1, Len(str))>>

\* The enumeration fields of an ACL: resource type, pattern type, operation, permission
IdAclEnums ==
    {<<<<"T", "O", "P", "I", "C">>, <<"L", "I", "T", "E", "R", "A", "L">>,
       <<"R", "E", "A", "D">>, <<"A", "L", "L", "O", "W">>>>,
     <<<<"A", "N", "Y">>, <<"M", "A", "T", "C", "H">>, <<"A", "L", "L">>, <<"D", "E", "N", "Y">>>>}

\* The places to cut a string of n characters in four
IdCuts(n) == {c \in [1..3 -> 0..n] : c[1] <= c[2] /\ c[2] <= c[3]}

\* A cluster ID and an ACL: the string str cut at c into the cluster ID, the
\* resource name, the principal and the host, with the enumeration fields e
IdAclKey(str, c, e) ==
    <<SubSeq(str, 1, c[1]),
      Acl(e[1], SubSeq(str, c[1] + 1, c[2]), e[2], SubSeq(str, c[2] + 1, c[3]),
          SubSeq(str, c[3] + 1, Len(str)), e[3], e[4])>>

\* The environment of an import whose variables are all set
ImportEnv == CHOOSE env \in ImportEnvs : env.err = NoError

\* The listing of a topic that has no setting of its own
NoSettingsListed == [status |-> 200, Data |-> EmptyMap]

\* The resource data an import starts from: the runtime has set the ID the user
\* gave, here the ID of a topic or of an ACL as createKafkaTopicId and
\* createKafkaAclId build it of a cluster ID and a topic name, or a cluster ID
\* and the resource name, principal and host of an ACL, of at most MaxIdChars
\* characters together
IdInit ==
    /\ op = "None"
    /\ \E str \in IdStrings :
          \/ /\ \E c \in 0..Len(str) : idOf = IdTopicKey(str, c)
             /\ dIn = [NoData EXCEPT !.id = createKafkaTopicId(idOf[1], idOf[2])]
          \/ /\ \E c \in IdCuts(Len(str)), e \in IdAclEnums : idOf = IdAclKey(str, c, e)
             /\ dIn = [NoAclData EXCEPT !.id = createKafkaAclId(idOf[1], idOf[2])]
    /\ d = dIn
    /\ steps = <<>>
    /\ err = NoError
    /\ locals = NoLocals

\* kafkaTopicImport on the ID the runtime holds
IdTopicImport ==
    /\ Idle
    /\ dIn.attrs = NoTopicAttrs
    /\ LET parts == Split(dIn.id, "/")
           topicName == IF Len(parts) = 2 THEN parts[2] ELSE <<>>
       IN  \E get \in Drawn(kafkaTopicImport(dIn, ImportEnv, Unasked, Unasked).steps,
                            "GetKafkaV3Topic", GetTopicResponses(topicName)) :
               Finish("TopicImport", dIn,
                      kafkaTopicImport(dIn, ImportEnv, get, NoSettingsListed), NoLocals)

\* kafkaAclImport on the ID the runtime holds
IdAclImport ==
    /\ Idle
    /\ dIn.attrs = NoAclAttrs
    /\ LET parts == Split(dIn.id, "/")
           acl == IF Len(parts) = 2 THEN deserializeAcl(parts[2]).acl ELSE NoAcl
       IN  \E tr \in Drawn(kafkaAclImport(dIn, ImportEnv, Unasked, Unasked).steps,
                           "principalWithResourceIdToPrincipalWithIntegerId", TranslateResponses) :
           \E get \in Drawn(kafkaAclImport(dIn, ImportEnv, tr, Unasked).steps,
                            "GetKafkaV3Acls", GetAclResponses(RemoteAcl(acl, tr))) :
               Finish("AclImport", dIn, kafkaAclImport(dIn, ImportEnv, tr, get), NoLocals)

IdNext ==
    \/ IdTopicImport
    \/ IdAclImport

IdSpec == IdInit /\ [][IdNext]_vars

\* ------------------------------------------------------------ properties
UpdateCall == "UpdateKafkaV3TopicConfigBatch"
TopicFetch == "GetKafkaV3Topic"
AclFetch == "GetKafkaV3Acls"
TranslateCall == "principalWithResourceIdToPrincipalWithIntegerId"

\* The calls that go to a remote API
RemoteCalls ==
    {"CreateKafkaV3Topic", TopicFetch, "ListKafkaV3TopicConfigs", UpdateCall,
     "CreateKafkaV3Acls", AclFetch, TranslateCall, "DeleteKafkaV3Topic",
     "DeleteKafkaV3Acls"}

NoRemoteCall == \A i \in DOMAIN steps : steps[i].call \notin RemoteCalls

\* The places of the log that hold this call
Places(call) == {i \in DOMAIN steps : steps[i].call = call}

\* The old and the new settings map of the Update that has run
OldSettings == dIn.state[paramConfigs]
NewSettings == dIn.attrs[paramConfigs]

\* A key of the new map that was added or whose value changed
AddedOrChanged(n) ==
    /\ n \in DOMAIN NewSettings
    /\ n \notin DOMAIN OldSettings \/ OldSettings[n] # NewSettings[n]

\* The batch request was answered with success and the settings were re-read
SubmittedAndReread ==
    /\ op = "TopicUpdate"
    /\ Len(steps) = 3
    /\ steps[1].call = UpdateCall /\ steps[1].status < 300
    /\ steps[3].call = "ListKafkaV3TopicConfigs" /\ steps[3].status < 300

\* A setting of the submitted batch whose re-read remote value is another one
Diverges(v) ==
    LET remote == steps[3].arg[3].Data
    IN  /\ v.Name \in DOMAIN remote
        /\ remote[v.Name].Source = CONFIGSOURCE_DYNAMIC_TOPIC_CONFIG
        /\ remote[v.Name].Value # Nil
        /\ remote[v.Name].Value # v.Value

SomeSettingDiverges == \E i \in DOMAIN steps[1].arg[3] : Diverges(steps[1].arg[3][i])

\* C1: a topic Update whose batch was submitted and whose re-read shows a
\* setting of the batch with another remote value than the requested one ends
\* in an error; it reports success only when no setting of the batch diverges.
C1_DivergenceIsAnError ==
    (SubmittedAndReread /\ SomeSettingDiverges) => err # NoError

\* C2: a topic Update that drops a key of the previous config map is rejected
\* with an error and sends no update request, whatever else it adds or changes.
C2_RemovalRejected ==
    (op = "TopicUpdate" /\ \E n \in DOMAIN OldSettings : n \notin DOMAIN NewSettings)
        => (err # NoError /\ NoRemoteCall)

C2_Witness ==
    /\ op = "TopicUpdate"
    /\ err = "removing topic settings is not supported"
    /\ \E n \in DOMAIN OldSettings : n \notin DOMAIN NewSettings
    /\ \E n \in DOMAIN NewSettings : AddedOrChanged(n) /\ n \in editableTopicSettings

\* C3: a topic Update that adds or changes a key outside the allow-list of
\* editable settings is rejected with an error and sends no update request,
\* also when other keys it changes are editable.
C3_ReadOnlySettingRejected ==
    (op = "TopicUpdate" /\ \E n \in DOMAIN NewSettings :
                              AddedOrChanged(n) /\ n \notin editableTopicSettings)
        => (err # NoError /\ NoRemoteCall)

C3_Witness ==
    /\ op = "TopicUpdate"
    /\ err = "topic setting is read-only"
    /\ \E n \in DOMAIN NewSettings : AddedOrChanged(n) /\ n \notin editableTopicSettings
    /\ \E n \in DOMAIN NewSettings : AddedOrChanged(n) /\ n \in editableTopicSettings

\* C4: the batch a topic Update submits holds exactly one entry (name, desired
\* value) for every key of the desired map that is new or has another value
\* than before, and no entry for any other key.
C4_BatchIsTheDiff ==
    \A p \in Places(UpdateCall) :
        LET batch == steps[p].arg[3]
        IN  /\ op = "TopicUpdate"
            /\ \A n \in DOMAIN NewSettings :
                  AddedOrChanged(n) =>
                      /\ Cardinality({i \in DOMAIN batch : batch[i].Name = n}) = 1
                      /\ \E i \in DOMAIN batch :
                            batch[i] = [Name |-> n, Value |-> NewSettings[n]]
            /\ \A i \in DOMAIN batch : AddedOrChanged(batch[i].Name)

C4_Witness ==
    /\ op = "TopicUpdate"
    /\ Places(UpdateCall) # {}
    /\ Len(steps[1].arg[3]) = 1
    /\ \E n \in DOMAIN NewSettings : n \in DOMAIN OldSettings /\ OldSettings[n] # NewSettings[n]
    /\ \E n \in DOMAIN NewSettings : ~AddedOrChanged(n)

\* C5: a topic Update that changes the partition count, the topic name, the
\* cluster ID or the endpoint returns an error and contacts no remote API; no
\* Update makes any remote call but the settings batch and the settings listing.
C5_OnlyCredentialsAndConfigChange ==
    op = "TopicUpdate" =>
        /\ (\E k \in {paramPartitionsCount, paramTopicName, paramKafkaCluster, paramHttpEndpoint} :
                dIn.state[k] # dIn.attrs[k])
              => (err # NoError /\ steps = <<>>)
        /\ \A i \in DOMAIN steps :
              steps[i].call \in {UpdateCall, "Sleep", "ListKafkaV3TopicConfigs"}

C5_Witness ==
    /\ op = "TopicUpdate"
    /\ dIn.state[paramPartitionsCount] # dIn.attrs[paramPartitionsCount]
    /\ \A k \in {paramTopicName, paramKafkaCluster, paramHttpEndpoint} :
          dIn.state[k] = dIn.attrs[k]
    /\ \E n \in DOMAIN NewSettings : AddedOrChanged(n) /\ n \in editableTopicSettings
    /\ err = "only credentials and config can be updated"

\* C6: an ACL Update that changes any attribute but the credentials returns an
\* error and contacts no remote API; one that changes the credentials alone does
\* what a Read does and makes no remote create, alter or delete call.
C6_AclIsImmutable ==
    op = "AclUpdate" =>
        /\ (\E k \in (DOMAIN dIn.attrs) \ {paramCredentials} : dIn.state[k] # dIn.attrs[k])
              => (err # NoError /\ steps = <<>> /\ d = dIn)
        /\ \A i \in DOMAIN steps :
              steps[i].call \in {TranslateCall, AclFetch, "Set", "SetId"}

C6_Witness ==
    /\ op = "AclUpdate"
    /\ dIn.state[paramHost] # dIn.attrs[paramHost]
    /\ \A k \in (DOMAIN dIn.attrs) \ {paramHost} : dIn.state[k] = dIn.attrs[k]
    /\ err = "only credentials can be updated"

\* The fetch of a Read was answered with this status
FetchAnswered(status) ==
    \E i \in DOMAIN steps : steps[i].call \in {TopicFetch, AclFetch} /\ steps[i].status = status

\* C7: a topic or ACL Read whose fetch is answered 404, for a resource that is
\* not marked new, clears the resource ID and reports no error.
C7_NotFoundDropsFromState ==
    (op \in {"TopicRead", "AclRead"} /\ FetchAnswered(StatusNotFound) /\ ~dIn.isNew)
        => (d.id = <<>> /\ err = NoError)

C7_Witness ==
    /\ op = "AclRead"
    /\ FetchAnswered(StatusNotFound)
    /\ ~dIn.isNew /\ dIn.id # <<>>
    /\ d.id = <<>>

\* The resource ID d held when the fetch was made
IdAtFetch ==
    IF op \in {"TopicCreate", "AclCreate"}
    THEN steps[CHOOSE i \in Places("SetId") : \A j \in Places("SetId") : i <= j].arg
    ELSE dIn.id

\* C8: when the resource is marked new (a Create, or an Import, which marks it
\* before fetching), a fetch answered 404 is an error and the resource ID stays.
C8_NotFoundOnNewIsAnError ==
    (FetchAnswered(StatusNotFound) /\ d.isNew)
        => (err # NoError /\ d.id # <<>> /\ d.id = IdAtFetch)

C8_Witness ==
    /\ op = "TopicImport"
    /\ FetchAnswered(StatusNotFound)
    /\ d.isNew /\ ~dIn.isNew
    /\ err # NoError

\* A remote call answered with an error that is not a 404 on a fetch
SurfacedError(i) ==
    /\ steps[i].call \in RemoteCalls
    /\ steps[i].status >= 300
    /\ ~(steps[i].call \in {TopicFetch, AclFetch} /\ steps[i].status = StatusNotFound)

\* C9: a remote error other than a 404 on a fetch ends the handler with an
\* error and is the last thing it did (the call is not made again); a fetch that
\* fails so leaves the resource ID as it was and writes no attribute.
C9_RemoteErrorsSurface ==
    \A i \in DOMAIN steps :
        SurfacedError(i) =>
            /\ err # NoError
            /\ i = Len(steps)
            /\ steps[i].call \in {TopicFetch, AclFetch} =>
                  /\ Places("Set") = {}
                  /\ d.attrs = dIn.attrs
                  /\ d.id = IdAtFetch

C9_Witness ==
    /\ op = "TopicRead"
    /\ \E i \in DOMAIN steps : steps[i].call = TopicFetch /\ SurfacedError(i)
    /\ d.id = dIn.id /\ d.id # <<>>

\* The step at which the remote create call was made
CreateAt == CHOOSE i \in DOMAIN steps : steps[i].call \in {"CreateKafkaV3Topic", "CreateKafkaV3Acls"}

CreateCalled ==
    \E i \in DOMAIN steps : steps[i].call \in {"CreateKafkaV3Topic", "CreateKafkaV3Acls"}

\* C10: topic and ACL Create make the remote create call, then set the
\* resource ID, then wait the fixed delay, then Read; when the create call fails
\* they return an error, the ID is never set and neither wait nor Read happens.
C10_CreateOrder ==
    (op \in {"TopicCreate", "AclCreate"} /\ CreateCalled) =>
        /\ Cardinality(Places("CreateKafkaV3Topic") \cup Places("CreateKafkaV3Acls")) = 1
        /\ steps[CreateAt].status >= 300 =>
              /\ err # NoError
              /\ d.id = <<>>
              /\ Len(steps) = CreateAt
              /\ Places("SetId") = {}
        /\ steps[CreateAt].status < 300 =>
              /\ Len(steps) >= CreateAt + 3
              /\ steps[CreateAt + 1].call = "SetId"
              /\ steps[CreateAt + 1].arg # <<>>
              /\ steps[CreateAt + 2] = Ev("Sleep", kafkaRestAPIWaitAfterCreate, 0)
              /\ steps[CreateAt + 3].call =
                    (IF op = "TopicCreate" THEN TopicFetch ELSE TranslateCall)
              /\ \A i \in 1..(CreateAt - 1) : steps[i].call \notin {"SetId", "Sleep", TopicFetch, AclFetch}

C10_Witness ==
    /\ op = "TopicCreate"
    /\ CreateCalled
    /\ steps[CreateAt].status < 300
    /\ err = NoError
    /\ d.id = createKafkaTopicId(dIn.attrs[paramKafkaCluster], dIn.attrs[paramTopicName])

\* C11: topic Delete makes the remote delete call first and then only polls.
\* When the delete call fails it returns an error and polls not once; when the
\* call succeeds it polls, every poll but the last finds the topic still there,
\* and it reports success exactly when the last poll is answered 404.
C11_DeleteThenPoll ==
    op = "TopicDelete" =>
        /\ Len(steps) >= 1
        /\ steps[1].call = "DeleteKafkaV3Topic"
        /\ \A i \in 2..Len(steps) : steps[i].call = TopicFetch
        /\ steps[1].status >= 300 => (err # NoError /\ Len(steps) = 1)
        /\ steps[1].status < 300 =>
              /\ Len(steps) >= 2
              /\ \A i \in 2..(Len(steps) - 1) : steps[i].status = 200
              /\ err = NoError <=> steps[Len(steps)].status = StatusNotFound
        /\ d = dIn

C11_Witness ==
    /\ op = "TopicDelete"
    /\ Len(steps) = 3
    /\ steps[1].status = 204
    /\ steps[2].status = 200
    /\ steps[3].status = StatusNotFound
    /\ err = NoError

\* The string holds none of these characters
Without(str, chars) == \A i \in DOMAIN str : str[i] \notin chars

\* C12: when neither the cluster ID nor the topic name holds a '/', Topic
\* Import of the ID createKafkaTopicId built of them fetches exactly that topic
\* of exactly that cluster.
C12_TopicIdRoundTrip ==
    (op = "TopicImport" /\ Without(idOf[1], {"/"}) /\ Without(idOf[2], {"/"}))
        => /\ steps # <<>>
           /\ steps[1].call = TopicFetch
           /\ steps[1].arg[1] = idOf[1]
           /\ steps[1].arg[2] = idOf[2]

C12_Witness ==
    /\ op = "TopicImport"
    /\ idOf = <<<<"a", "#">>, <<"b">>>>
    /\ dIn.id = <<"a", "#", "/", "b">>
    /\ steps[1].arg[1] = <<"a", "#">>
    /\ steps[1].arg[2] = <<"b">>
    /\ err = NoError
    /\ d.id = dIn.id

\* C13: when the cluster ID and the seven fields of an ACL hold neither '/'
\* nor '#', ACL Import of the ID createKafkaAclId built of them parses the same
\* principal (the one it translates), and the same cluster ID and the same
\* other six fields (the ones it queries the cluster with), field by field. An
\* import that succeeds leaves the very ID it was given.
C13_AclIdRoundTrip ==
    (/\ op = "AclImport"
     /\ Without(idOf[1], {"/", "#"})
     /\ \A f \in DOMAIN idOf[2] : Without(idOf[2][f], {"/", "#"}))
        => /\ steps # <<>>
           /\ steps[1].call = TranslateCall
           /\ steps[1].arg[1] = idOf[2].Principal
           /\ Len(steps) >= 2 =>
                 /\ steps[2].call = AclFetch
                 /\ steps[2].arg[1] = idOf[1]
                 /\ \A f \in (DOMAIN idOf[2]) \ {"Principal"} :
                       steps[2].arg[2][f] = idOf[2][f]
           /\ err = NoError => d.id = dIn.id

C13_Witness ==
    /\ op = "AclImport"
    /\ idOf[1] = <<"a">>
    /\ idOf[2].ResourceName = <<"b">>
    /\ idOf[2].Principal = <<>>
    /\ idOf[2].Host = <<"a">>
    /\ idOf[2].Operation = <<"R", "E", "A", "D">>
    /\ err = NoError
    /\ d.id = dIn.id
    /\ d.attrs[paramHost] = <<"a">>

\* How often the character occurs in the string
Count(str, char) == Cardinality({i \in DOMAIN str : str[i] = char})

\* What follows the first '/' of a string that has one
AfterSlash(str) ==
    LET i == CHOOSE k \in DOMAIN str : str[k] = "/" /\ \A j \in 1..(k - 1) : str[j] # "/"
    IN  SubSeq(str, i + 1, Len(str))

\* The ID is not a cluster ID, a '/' and one more part
NotTwoParts(id) == Count(id, "/") # 1

\* The part after the '/' is not seven fields with a '#' between them
NotSevenFields(id) == Count(id, "/") = 1 /\ Count(AfterSlash(id), "#") # 6

\* C14: an import of an ID that is not two parts with one '/' between them,
\* and an ACL import of an ID whose second part is not seven fields with '#'
\* between them, returns an error, has done nothing before (no remote call, no
\* translation, no write to d) and leaves the ID as given.
C14_MalformedIdRejected ==
    (\/ op \in {"TopicImport", "AclImport"} /\ NotTwoParts(dIn.id)
     \/ op = "AclImport" /\ NotSevenFields(dIn.id))
        => /\ err # NoError
           /\ steps = <<>>
           /\ d = dIn

C14_Witness ==
    /\ op = "AclImport"
    /\ Count(dIn.id, "/") = 1
    /\ Count(AfterSlash(dIn.id), "#") = 7
    /\ idOf[2].Principal = <<"#">>
    /\ err = "invalid format for kafka ACL import"

\* The requests that carry an ACL to the Kafka REST API
AclRequests == {"CreateKafkaV3Acls", AclFetch, "DeleteKafkaV3Acls"}

\* The principal a resource ID holds: the fourth field of its second part
PrincipalOfId(id) == Split(Split(id, "/")[2], "#")[4]

TopicWasRead ==
    /\ op \in {"TopicRead", "TopicImport"}
    /\ err = NoError
    /\ Places(TopicFetch) # {}
    /\ \A i \in Places(TopicFetch) : steps[i].status = 200

\* C16: after a topic Read or Import that succeeded, the resource ID is the
\* cluster ID, a '/' and the topic name that the fetch was made with, and the
\* topic name and the partition count in d are those of the topic the remote
\* API returned.
C16_ReadTopicIntoState ==
    TopicWasRead =>
        /\ steps[1].call = TopicFetch
        /\ Places(TopicFetch) = {1}
        /\ d.id = steps[1].arg[1] \o <<"/">> \o steps[1].arg[2]
        /\ d.attrs[paramKafkaCluster] = steps[1].arg[1]
        /\ d.attrs[paramTopicName] = steps[1].arg[3].TopicName
        /\ d.attrs[paramPartitionsCount] = steps[1].arg[3].PartitionsCount

C16_Witness ==
    /\ TopicWasRead
    /\ op = "TopicRead"
    /\ dIn.attrs[paramPartitionsCount] = 1
    /\ steps[1].arg[3].PartitionsCount = 2
    /\ d.attrs[paramPartitionsCount] = 2
    /\ d.id = dIn.id

\* The settings the listing at step i returned
Listed(i) == steps[i].arg[3].Data

\* C17: the config map a topic Read (alone, or as part of Create or Import)
\* writes to d comes right after a listing answered with success and holds
\* exactly the listed settings whose source is the dynamic topic configuration
\* and whose value is not null, each with its listed value; no setting listed
\* as a default is in it.  d holds that map when the handler is done.
C17_OnlyDynamicSettingsInState ==
    \A i \in Places("Set") :
        (op \in {"TopicRead", "TopicImport", "TopicCreate"} /\ steps[i].arg[1] = paramConfigs) =>
            /\ steps[i - 1].call = "ListKafkaV3TopicConfigs"
            /\ steps[i - 1].status = 200
            /\ \A n \in SettingNames :
                  n \in DOMAIN steps[i].arg[2] <=>
                      /\ n \in DOMAIN Listed(i - 1)
                      /\ Listed(i - 1)[n].Source = CONFIGSOURCE_DYNAMIC_TOPIC_CONFIG
                      /\ Listed(i - 1)[n].Value # Nil
            /\ DOMAIN steps[i].arg[2] \subseteq SettingNames
            /\ \A n \in DOMAIN steps[i].arg[2] : steps[i].arg[2][n] = Listed(i - 1)[n].Value
            /\ \A n \in DOMAIN steps[i].arg[2] : Listed(i - 1)[n].Source # CONFIGSOURCE_DEFAULT_CONFIG
            /\ d.attrs[paramConfigs] = steps[i].arg[2]
            /\ err = NoError

C17_Witness ==
    /\ op = "TopicRead"
    /\ err = NoError
    /\ \E i \in Places("ListKafkaV3TopicConfigs") :
          /\ DOMAIN Listed(i) = SettingNames
          /\ Listed(i)["retention.ms"] = [Source |-> CONFIGSOURCE_DYNAMIC_TOPIC_CONFIG, Value |-> "600001"]
          /\ Listed(i)["segment.ms"].Source = CONFIGSOURCE_DEFAULT_CONFIG
          /\ Listed(i)["cleanup.policy"] = [Source |-> CONFIGSOURCE_DYNAMIC_TOPIC_CONFIG, Value |-> Nil]
    /\ dIn.attrs[paramConfigs] = [n \in {"segment.ms"} |-> "600000"]
    /\ d.attrs[paramConfigs] = [n \in {"retention.ms"} |-> "600001"]

\* C18: an ACL Read of a resource whose principal in state starts with neither
\* "User:sa-" nor "User:u-" clears the resource ID and does nothing else: no
\* lookup of the principal, no remote call, no attribute written, no error.
C18_IntegerIdPrincipalIsDropped ==
    (/\ op = "AclRead"
     /\ ~HasPrefix(dIn.attrs[paramPrincipal], <<"U", "s", "e", "r", ":", "s", "a", "-">>)
     /\ ~HasPrefix(dIn.attrs[paramPrincipal], <<"U", "s", "e", "r", ":", "u", "-">>))
        => /\ d.id = <<>>
           /\ err = NoError
           /\ steps = <<SetIdEv(<<>>)>>
           /\ d.attrs = dIn.attrs

C18_Witness ==
    /\ op = "AclRead"
    /\ dIn.attrs[paramPrincipal] = <<"U", "s", "e", "r", ":", "1">>
    /\ dIn.id # <<>>
    /\ d.id = <<>>
    /\ Places(TranslateCall) = {}

\* The number of ACLs the query at step i matched
Matched(i) == Len(steps[i].arg[3].Data)

\* C19: an ACL query answered with success is made once.  With exactly one
\* match the handler goes on, writes the attributes and sets the ID; with no
\* match or with more than one it ends there with an error, having written no
\* attribute and with the ID d had when the query was made (it is not cleared).
C19_ExactlyOneMatch ==
    \A i \in Places(AclFetch) :
        steps[i].status = 200 =>
            /\ Places(AclFetch) = {i}
            /\ Matched(i) = 1 =>
                  /\ err = NoError
                  /\ {steps[j].arg[1] : j \in Places("Set")} = DOMAIN d.attrs
                  /\ \A j \in Places("Set") : j > i
                  /\ steps[Len(steps)].call = "SetId"
                  /\ d.id = steps[Len(steps)].arg /\ d.id # <<>>
                  /\ \A f \in (DOMAIN NoAcl) \ {"Principal"} :
                        steps[i].arg[3].Data[1][f] = extractAcl(d).acl[f]
            /\ Matched(i) # 1 =>
                  /\ err # NoError
                  /\ i = Len(steps)
                  /\ Places("Set") = {}
                  /\ d.attrs = dIn.attrs
                  /\ d.id = IdAtFetch

C19_Witness ==
    /\ op = "AclRead"
    /\ \E i \in Places(AclFetch) : steps[i].status = 200 /\ Matched(i) = 0
    /\ err = "no Kafka ACLs were matched"
    /\ d.id = dIn.id /\ d.id # <<>>

\* C20: a topic Update makes the batch call only on a diff that passed the
\* validation (no key removed, every added or changed key editable), makes it
\* first and once, then waits the fixed delay, then re-reads the settings.  When
\* the batch call fails it returns an error and neither waits nor re-reads; when
\* the re-read fails it returns an error.  It never waits or re-reads without a
\* batch call that succeeded.
C20_UpdateOrder ==
    op = "TopicUpdate" =>
        /\ Places(UpdateCall) # {} =>
              /\ Places(UpdateCall) = {1}
              /\ \A n \in DOMAIN OldSettings : n \in DOMAIN NewSettings
              /\ \A n \in DOMAIN NewSettings : AddedOrChanged(n) => n \in editableTopicSettings
              /\ steps[1].status >= 300 => (err # NoError /\ Len(steps) = 1)
              /\ steps[1].status < 300 =>
                    /\ Len(steps) = 3
                    /\ steps[2] = Ev("Sleep", kafkaRestAPIWaitAfterCreate, 0)
                    /\ steps[3].call = "ListKafkaV3TopicConfigs"
                    /\ steps[3].status >= 300 => err # NoError
        /\ Places(UpdateCall) = {} => steps = <<>>

C20_Witness ==
    /\ op = "TopicUpdate"
    /\ Len(steps) = 3
    /\ steps[1].call = UpdateCall /\ steps[1].status = 204
    /\ steps[3].call = "ListKafkaV3TopicConfigs" /\ steps[3].status = 500
    /\ err = "could not load configs"

\* C21: the batch a topic Update submits is never empty.  An Update whose
\* config map changed and lost no key has a key that was added or whose value
\* changed, and an Update that submits a batch is such an Update.
C21_BatchNotEmpty ==
    op = "TopicUpdate" =>
        /\ \A p \in Places(UpdateCall) :
              /\ Len(steps[p].arg[3]) >= 1
              /\ OldSettings # NewSettings
              /\ \E n \in DOMAIN NewSettings : AddedOrChanged(n)
        /\ (/\ OldSettings # NewSettings
            /\ \A n \in DOMAIN OldSettings : n \in DOMAIN NewSettings)
              => \E n \in DOMAIN NewSettings : AddedOrChanged(n)

C21_Witness ==
    /\ op = "TopicUpdate"
    /\ Places(UpdateCall) = {1}
    /\ Len(steps[1].arg[3]) = 2
    /\ DOMAIN OldSettings = {"retention.ms"}
    /\ DOMAIN NewSettings = {"retention.ms", "segment.ms"}
    /\ dIn.state[paramCredentials] # dIn.attrs[paramCredentials]

\* C22: a topic Update leaves the resource ID, the attributes and the stored
\* state as it found them, whether it is rejected, fails remotely or succeeds:
\* it writes nothing and fetches no topic, while a successful Create and an
\* accepted ACL Update go on to a Read.
C22_UpdateWritesNothing ==
    /\ op = "TopicUpdate" =>
          /\ d = dIn
          /\ Places("Set") = {} /\ Places("SetId") = {}
          /\ Places(TopicFetch) = {}
    /\ (op = "TopicCreate" /\ err = NoError) => Places(TopicFetch) # {}
    /\ (op = "AclUpdate" /\ err = NoError) => Places(AclFetch) # {}

C22_Witness ==
    /\ SubmittedAndReread
    /\ err = NoError
    /\ d = dIn
    /\ loadTopicConfigs(steps[3].arg[3]).err = NoError
    /\ loadTopicConfigs(steps[3].arg[3]).config # dIn.attrs[paramConfigs]
    /\ loadTopicConfigs(steps[3].arg[3]).config # dIn.state[paramConfigs]

\* The names a sequence of setting names holds
Names(seq) == {seq[i] : i \in DOMAIN seq}

\* The re-read listing has no dynamic entry for this setting of the batch
NoDynamicEntry(v) ==
    LET remote == steps[3].arg[3].Data
    IN  \/ v.Name \notin DOMAIN remote
        \/ remote[v.Name].Source # CONFIGSOURCE_DYNAMIC_TOPIC_CONFIG

\* C23: in the verification after a topic Update, a setting of the batch that
\* the re-read listing has no dynamic entry for is classified as updated and
\* not as outdated; the settings classified as outdated are exactly the ones
\* that are present remotely with another value than the requested one, and
\* every setting of the batch is in one of the two classes.
C23_AbsentCountsAsUpdated ==
    (SubmittedAndReread /\ err = NoError) =>
        \A i \in DOMAIN locals.batch :
            LET v == locals.batch[i]
            IN  /\ NoDynamicEntry(v) =>
                      (v.Name \in Names(locals.updated) /\ v.Name \notin Names(locals.outdated))
                /\ v.Name \in Names(locals.outdated) <=> Diverges(v)
                /\ v.Name \in Names(locals.updated) <=> ~Diverges(v)

C23_Witness ==
    /\ SubmittedAndReread
    /\ err = NoError
    /\ Len(locals.batch) = 2
    /\ locals.batch[1].Name \notin DOMAIN steps[3].arg[3].Data
    /\ locals.updated = <<locals.batch[1].Name>>
    /\ Diverges(locals.batch[2])
    /\ locals.outdated = <<locals.batch[2].Name>>

\* C24: a topic Read run again on what a successful Read left, against the
\* same remote, succeeds as well and leaves the resource ID and every attribute
\* (cluster ID, topic name, partition count, config, credentials, endpoint) as
\* the first Read left them.
C24_ReadIsIdempotent ==
    op = "TopicReadAgain" =>
        /\ err = NoError
        /\ d.id = dIn.id
        /\ \A k \in {paramKafkaCluster, paramTopicName, paramPartitionsCount,
                     paramConfigs, paramCredentials, paramHttpEndpoint} :
              d.attrs[k] = dIn.attrs[k]
        /\ d = dIn

C24_Witness ==
    /\ op = "TopicReadAgain"
    /\ err = NoError
    /\ d.id = dIn.id /\ d.id # <<>>
    /\ Places(TopicFetch) = {1}
    /\ Places("ListKafkaV3TopicConfigs") # {}
    /\ d.attrs[paramConfigs] # EmptyMap
    /\ d.attrs[paramPartitionsCount] = MaxPartitions
    /\ \E i \in Places("ListKafkaV3TopicConfigs") :
          DOMAIN steps[i].arg[3].Data # DOMAIN d.attrs[paramConfigs]

====
